---------------------------- MODULE Spec2Model ----------------------------
(***************************************************************************)
(* The HTTP facade of src/src/services/api.ts: the axios request hook      *)
(* (client-side admission, bearer token, proactive refresh) and the        *)
(* response hook (401 refresh with a wait-list, 403/404, 429, network and  *)
(* 5xx backoff), run as interleaved asynchronous continuations on one      *)
(* thread.  One action is one task of the event loop: the callback that    *)
(* starts it and the promise continuations it makes runnable, up to the    *)
(* next await of a fetch, a network reply or a timer.  apiClient(config)   *)
(* runs the request hook in a microtask of the task that called it, so a   *)
(* call's issue or re-issue and its pass through the request hook are one  *)
(* step.                                                                   *)
(*                                                                         *)
(* Time is Date.now() in milliseconds, advanced in steps of TickMs.  URLs   *)
(* are sequences of path chunks, so that String.includes is a              *)
(* contiguous-subsequence test.  A record of the request log keeps its     *)
(* timestamp; its endpoint field is written and never read by the code.    *)
(*                                                                         *)
(* Around the facade: withFallback of fallbackData.ts, through which the   *)
(* admin calls of the feature modules are made, and the admin settings     *)
(* request of siteSettings.ts, a fetch of its own.  Each specification is  *)
(* one kind of page: Spec and SpecLive a freshly loaded one, SpecBusy and  *)
(* SpecFeature a session whose request log is near its ceiling, SpecQueue  *)
(* and SpecRetry pages whose calls all meet 401 or a failing backend.      *)
(***************************************************************************)
EXTENDS Integers, Sequences, FiniteSets, TLC

\* ---------------------------------------------------------------- bounds
NumCalls == 2
\* calls of the page whose calls all meet 401 (SpecQueue)
QueueCalls == 3
\* calls of the page whose calls all meet network and 5xx errors
\* (SpecRetry); no specification has more
MaxCalls == 4
\* the clock advances by TickMs up to the time MaxTicks * TickMs
MaxTicks == 2
TickMs == 30000
\* 429 answers the server gives to one call
Max429 == 1

\* --------------------------------------------------- program constants
\* api.ts:7   config.apiRetryAttempts || 3
maxRetries == 3
\* api.ts:11  ceiling of the request log
maxRequests == 200
\* api.ts:12  the trailing window
windowMs == 60000
\* api.ts:274 the 429 handler keeps the last 50 records of the log
sliceKeep == 50
\* api.ts:286 config.apiRetryDelay || 1000
baseDelay == 1000
\* api.ts:269 delay of a 429 without a Retry-After header
defaultRetryAfterMs == 5000
\* api.ts:93  a token is refreshed when it expires in less than 300 s
refreshThreshold == 300

Calls == 1 .. MaxCalls

\* ------------------------------------------------------------------ URLs
U_articles == <<"/articles">>
U_catHealth == <<"/categories", "/health">>
U_login == <<"/auth", "/login">>
U_refresh == <<"/auth", "/refresh">>
U_health == <<"/health">>
\* the page does not make this call
U_none == <<>>
\* the two sides of the unresolved merge of staticPagesService.getAdminPages
\* and of categoriesService.getAdminCategories: a build has one or the other
U_staticPages == <<"/static-pages">>
U_adminPages == <<"/admin", "/pages">>
U_categories == <<"/categories">>
U_adminCategories == <<"/admin", "/categories">>
FeatureUrls == {U_staticPages, U_adminPages, U_categories, U_adminCategories}
Urls == {U_articles, U_catHealth, U_login, U_refresh, U_health}

\* String.prototype.includes: t occurs in s as a contiguous run
Includes(s, t) ==
  \E i \in 0 .. (Len(s) - Len(t)) :
    \A j \in 1 .. Len(t) : s[i + j] = t[j]

criticalEndpoints == {U_login, U_refresh, U_health}

IsCritical(endpoint) == \E critical \in criticalEndpoints : Includes(endpoint, critical)

\* ---------------------------------------------------------------- tokens
\* A credential is [id, exp]: exp = -1 when the token does not decode
\* (atob / JSON.parse throws), 0 when the payload has no exp, otherwise the
\* second at which it expires.
NoToken == [id |-> 0, exp |-> 0]
Malformed == -1
NearExp == 200
FarExp == 100000

Token(i, e) == [id |-> i, exp |-> e]

VARIABLES
  now,           \* Date.now()
  retryCount,    \* api.ts:6
  requestQueue,  \* rateLimitConfig.requestQueue: records [timestamp, endpoint]
  isRefreshing,  \* api.ts:55
  failedQueue,   \* api.ts:56: the calls whose {resolve, reject} are queued
  auth_token,    \* localStorage 'auth_token'
  user_data,     \* localStorage 'user_data' present
  onAuthPage,    \* window.location.pathname.includes('/auth')
  redirects,     \* setTimeout callbacks scheduled to set location.href
  issued,        \* tokens issued by the refresh endpoint so far
  settled,       \* the callers processQueue settled last, in its order
  ls_token,      \* localStorage 'token'
  settingsAuth,  \* <<token>> sent by the last admin settings request, or <<>>
  pc,            \* where each call stands
  url,           \* config.url of each call
  retry,         \* originalRequest._retry
  hdr,           \* config.headers.Authorization (the token after 'Bearer ')
  captured,      \* the request hook's local `token` across its await
  wait,          \* delay of the pending setTimeout of the call, in ms
  netFails,      \* responses of the call that were network errors
  srvFails,      \* responses of the call that were 5xx
  n429,          \* responses of the call that were 429
  reissue401,    \* re-issues of the call made on account of a 401
  refreshes,     \* refreshes the call has started in the response hook
  delays,        \* backoff delays of the call's network/5xx retries, in order
  outcome,       \* what the caller of the facade got
  development,   \* process.env.NODE_ENV === 'development'
  wrapped,       \* the call is a feature module's serviceCall of withFallback
  delivered      \* what the caller of the feature module got

shared == <<now, retryCount, requestQueue, isRefreshing, failedQueue,
            auth_token, user_data, onAuthPage, redirects, issued,
            settled, ls_token, settingsAuth, development>>
percall == <<pc, url, retry, hdr, captured, wait, netFails, srvFails, n429, reissue401,
             refreshes, delays, outcome, wrapped, delivered>>
vars == <<shared, percall>>


\* A status is the HTTP status of the reply; 0 stands for no reply at all.

\* ------------------------------------------------- request log (api.ts:10-43)
\* cleanupOldRequests: keep the records younger than the window
CleanupOldRequests(q, t) ==
  SelectSeq(q, LAMBDA req : t - req.timestamp < windowMs)

\* (mutant: admission without the allow-list of critical endpoints)
ShouldRateLimitAll(q, endpoint) == Len(q) >= maxRequests

\* shouldRateLimit, on the log as cleanupOldRequests left it
ShouldRateLimit(q, endpoint) ==
  IF IsCritical(endpoint) THEN FALSE ELSE Len(q) >= maxRequests

\* addToRequestQueue
AddToRequestQueue(q, t, endpoint) ==
  Append(q, [timestamp |-> t])

\* Array.prototype.slice(-n): the last n elements
SliceLast(q, n) ==
  IF Len(q) <= n THEN q ELSE SubSeq(q, Len(q) - n + 1, Len(q))

\* ------------------------------------------------ token expiry (api.ts:88-93)
\* (mutant: the decoding never throws)
DecodesAlways(token) == TRUE

Decodes(token) == token.exp # Malformed

\* currentTime = Date.now() / 1000;
\* payload.exp && payload.exp - currentTime < 300
NearExpiry(token, t) ==
  token.exp # 0 /\ (token.exp * 1000 - t) < refreshThreshold * 1000

\* the request hook starts a proactive refresh (api.ts:93-94)
WantsProactiveRefresh(c, token, refreshing) ==
  /\ Decodes(token)
  /\ NearExpiry(token, now)
  /\ ~refreshing
  /\ ~Includes(url[c], U_refresh)

\* ----------------------------------------------------------------- Init
InitTokens ==
  {NoToken, Token(1, Malformed), Token(1, NearExp), Token(1, FarExp)}

\* a log of a requests made at time 0 followed by b made at time TickMs
LogOf(a, b) ==
  [i \in 1 .. (a + b) |-> [timestamp |-> IF i <= a THEN 0 ELSE TickMs]]

\* calls are interchangeable: their URLs are drawn in one order only
UrlRank(u) ==
  CASE u = U_articles -> 1
    [] u = U_catHealth -> 2
    [] u = U_login -> 3
    [] u = U_refresh -> 4
    [] OTHER -> 5

\* the first n calls go to URLs of S, the others are not made
UrlsOf(n, S) ==
  {f \in [Calls -> S \cup {U_none}] :
     \A c \in Calls : IF c <= n THEN f[c] \in S ELSE f[c] = U_none}

Ordered(f) == \A c \in Calls, d \in Calls : c < d => UrlRank(f[c]) <= UrlRank(f[d])

InitCalls ==
  /\ pc = [c \in Calls |-> "idle"]
  /\ retry = [c \in Calls |-> FALSE]
  /\ hdr = [c \in Calls |-> NoToken]
  /\ captured = [c \in Calls |-> NoToken]
  /\ wait = [c \in Calls |-> 0]
  /\ netFails = [c \in Calls |-> 0]
  /\ srvFails = [c \in Calls |-> 0]
  /\ n429 = [c \in Calls |-> 0]
  /\ reissue401 = [c \in Calls |-> 0]
  /\ refreshes = [c \in Calls |-> 0]
  /\ delays = [c \in Calls |-> <<>>]
  /\ outcome = [c \in Calls |-> "pending"]
  /\ delivered = [c \in Calls |-> "pending"]

\* a production build whose calls go to the facade directly
InitDirect ==
  /\ development = FALSE
  /\ wrapped = [c \in Calls |-> FALSE]

InitShared ==
  /\ retryCount = 0
  /\ isRefreshing = FALSE
  /\ failedQueue = <<>>
  /\ user_data = (auth_token # NoToken)
  /\ onAuthPage = FALSE
  /\ redirects = 0
  /\ issued = 1
  /\ settled = <<>>
  /\ ls_token = NoToken
  /\ settingsAuth = <<>>

\* The module has just been loaded: the log is empty; a token may be left in
\* localStorage by an earlier login.
InitFresh ==
  /\ now = 0
  /\ requestQueue = <<>>
  /\ auth_token \in InitTokens
  /\ url \in {f \in UrlsOf(NumCalls, {U_articles, U_refresh}) : Ordered(f)}
  /\ InitShared
  /\ InitCalls
  /\ InitDirect

\* The session has made many requests within the window: the log is at the
\* ceiling or one below it, and its oldest record is about to leave the
\* window.  The first call goes to any URL, the others to /articles.
InitBusy ==
  /\ now = TickMs
  /\ requestQueue \in {LogOf(1, maxRequests - 2), LogOf(1, maxRequests - 1)}
  /\ auth_token = NoToken
  /\ url \in {f \in UrlsOf(NumCalls, Urls) :
                 \A c \in 2 .. NumCalls : f[c] = U_articles}
  /\ InitShared
  /\ InitCalls
  /\ InitDirect

\* The admin pages of a busy session, in a development or a production
\* build: every call is getAdminPages or getAdminCategories, made through
\* withFallback.  The log is at the ceiling or leaves room for the calls
\* and their retries.
InitFeature ==
  /\ now = TickMs
  /\ requestQueue \in {LogOf(1, maxRequests - 4), LogOf(1, maxRequests - 1)}
  /\ auth_token \in {NoToken, Token(1, FarExp)}
  /\ url \in UrlsOf(NumCalls, FeatureUrls)
  /\ InitShared
  /\ InitCalls
  /\ development \in BOOLEAN
  /\ wrapped = [c \in Calls |-> TRUE]

\* A page that makes QueueCalls calls to /articles at once, with or
\* without a token left by an earlier login.
InitQueue ==
  /\ now = 0
  /\ requestQueue = <<>>
  /\ auth_token \in {NoToken, Token(1, FarExp)}
  /\ url \in UrlsOf(QueueCalls, {U_articles})
  /\ InitShared
  /\ InitCalls
  /\ InitDirect

\* A page that makes MaxCalls calls to /articles at once while the
\* backend is failing; nobody is logged in.
InitRetry ==
  /\ now = 0
  /\ requestQueue = <<>>
  /\ auth_token = NoToken
  /\ url \in UrlsOf(MaxCalls, {U_articles})
  /\ InitShared
  /\ InitCalls
  /\ InitDirect

\* The freshly loaded page whose calls all go to /articles, with no token
\* or with one about to expire.
InitLive ==
  /\ now = 0
  /\ requestQueue = <<>>
  /\ auth_token \in {NoToken, Token(1, NearExp)}
  /\ url \in UrlsOf(NumCalls, {U_articles})
  /\ InitShared
  /\ InitCalls
  /\ InitDirect

Init ==
  InitFresh \/ InitBusy \/ InitFeature \/ InitQueue \/ InitRetry \/ InitLive

\* ------------------------------------------------------------ the clock
Tick ==
  /\ now < MaxTicks * TickMs
  /\ now' = now + TickMs
  /\ UNCHANGED <<percall, retryCount, requestQueue, isRefreshing, failedQueue,
                 auth_token, user_data, onAuthPage, redirects, issued,
                 settled, ls_token, settingsAuth, development>>

\* ------------------------------------------ request hook (api.ts:71-135)
\* One pass of call c through the request hook, up to its return or its
\* await of the proactive refresh.  st holds what the hook may change: the
\* request log rq and the calls' pc, hdr, captured and outcome.  token is
\* localStorage's auth_token and refreshing is isRefreshing as the hook
\* reads them.
\*   denied (api.ts:76-80, 162-165): the isRateLimit error reaches the caller
\*   through the response hook;
\*   allowed (api.ts:83-123): the record is logged and the token attached,
\*   or the hook suspends on the refresh.
\* (mutant: without the isRateLimit test of api.ts:162 the denial,
\* an error with no response, would be a network error to retry)
RejectRateLimitedRetried(st, c, q) ==
  [st EXCEPT !.rq = q, !.pc[c] = "backoff"]

\* the hook rejects with the isRateLimit error (api.ts:77-79), which the
\* response hook passes on to the caller at once (api.ts:162-165)
RejectRateLimited(st, c, q) ==
  [st EXCEPT !.rq = q,
             !.pc[c] = "done",
             !.outcome[c] = "RateLimitError"]

RequestHook(st, c, token, refreshing) ==
  LET q == CleanupOldRequests(st.rq, now) IN
  IF ShouldRateLimit(q, url[c])
    THEN RejectRateLimited(st, c, q)
    ELSE LET logged == [st EXCEPT !.rq = AddToRequestQueue(q, now, url[c])] IN
         IF token = NoToken
           THEN [logged EXCEPT !.pc[c] = "sent"]
           ELSE IF WantsProactiveRefresh(c, token, refreshing)
             THEN [logged EXCEPT !.pc[c] = "proRefresh",
                                 !.captured[c] = token]
             ELSE [logged EXCEPT !.pc[c] = "sent",
                                 !.hdr[c] = token]

\* the hook passes of the calls of cs, in order
RECURSIVE RequestHooks(_, _, _, _)
RequestHooks(st, cs, token, refreshing) ==
  IF cs = <<>> THEN st
  ELSE RequestHooks(RequestHook(st, Head(cs), token, refreshing),
                    Tail(cs), token, refreshing)

\* ------------------------------- withFallback (fallbackData.ts:291-323)
\* the rejected error carries a response (error.response is set)
HasResponse(o) == o \in {"Http400", "Http401", "Http403", "Http404", "Http500"}

\* shouldUseFallback: a 404, or no response at all in development
ShouldUseFallback(o) ==
  \/ HasResponse(o) /\ o = "Http404"
  \/ ~HasResponse(o) /\ development

\* withFallback: serviceCall's value, or on its rejection fallbackCall's
\* data or the error thrown again
WithFallback(o, enableFallback) ==
  IF o \in {"pending", "ok"} THEN o
  ELSE IF enableFallback /\ ShouldUseFallback(o) THEN "fallback"
  ELSE o

\* the feature modules' callers see the outcomes out; enableFallback has
\* its default, true (categories.ts:30-39)
Deliver(out) ==
  delivered' = [c \in Calls |->
                  IF wrapped[c] THEN WithFallback(out[c], TRUE) ELSE out[c]]

HookState ==
  [rq |-> requestQueue, pc |-> pc, hdr |-> hdr, captured |-> captured,
   outcome |-> outcome]

SetHookState(st) ==
  /\ requestQueue' = st.rq
  /\ pc' = st.pc
  /\ hdr' = st.hdr
  /\ captured' = st.captured
  /\ outcome' = st.outcome
  /\ Deliver(st.outcome)

\* --------------------------------------- api.get/post/... (api.ts:364-379)
Issue(c) ==
  /\ pc[c] = "idle"
  /\ url[c] # U_none
  /\ SetHookState(RequestHook(HookState, c, auth_token, isRefreshing))
  /\ UNCHANGED <<now, retryCount, isRefreshing, failedQueue, auth_token,
                 user_data, onAuthPage, redirects, issued, settled, ls_token,
                 settingsAuth, url, retry, wait, netFails, srvFails, n429,
                 reissue401, refreshes, delays, development, wrapped>>

\* The refresh endpoint's new token
NewToken(e) == Token(issued + 1, e)
NewExps == {FarExp}

\* Proactive refresh answered ok (api.ts:104-108)
ProRefreshOk(c, e) ==
  /\ pc[c] = "proRefresh"
  /\ issued' = issued + 1
  /\ auth_token' = NewToken(e)
  /\ hdr' = [hdr EXCEPT ![c] = NewToken(e)]
  /\ pc' = [pc EXCEPT ![c] = "sent"]
  /\ captured' = [captured EXCEPT ![c] = NoToken]
  /\ UNCHANGED <<now, retryCount, requestQueue, isRefreshing, failedQueue,
                 user_data, onAuthPage, redirects, settled, ls_token,
                 settingsAuth, url, retry, wait, netFails, srvFails, n429,
                 reissue401, refreshes, delays, outcome, development, wrapped,
                 delivered>>

\* Proactive refresh answered not ok: no branch sets the header (api.ts:104)
ProRefreshNotOk(c) ==
  /\ pc[c] = "proRefresh"
  /\ pc' = [pc EXCEPT ![c] = "sent"]
  /\ captured' = [captured EXCEPT ![c] = NoToken]
  /\ UNCHANGED <<shared, url, retry, hdr, wait, netFails, srvFails, n429,
                 reissue401, refreshes, delays, outcome, wrapped, delivered>>

\* Proactive refresh threw: continue with the token read before the await
\* (api.ts:109-112)
ProRefreshThrow(c) ==
  /\ pc[c] = "proRefresh"
  /\ hdr' = [hdr EXCEPT ![c] = captured[c]]
  /\ pc' = [pc EXCEPT ![c] = "sent"]
  /\ captured' = [captured EXCEPT ![c] = NoToken]
  /\ UNCHANGED <<shared, url, retry, wait, netFails, srvFails, n429,
                 reissue401, refreshes, delays, outcome, wrapped, delivered>>

\* ----------------------------------------- response hook (api.ts:145-361)
\* 2xx (api.ts:146-157)
RespSuccess(c) ==
  /\ pc[c] = "sent"
  /\ retryCount' = 0
  /\ pc' = [pc EXCEPT ![c] = "done"]
  /\ outcome' = [outcome EXCEPT ![c] = "ok"]
  /\ Deliver(outcome')
  /\ UNCHANGED <<now, requestQueue, isRefreshing, failedQueue, auth_token,
                 user_data, onAuthPage, redirects, issued, settled, ls_token,
                 settingsAuth, url, retry, hdr, captured, wait, netFails,
                 srvFails, n429, reissue401, refreshes, delays, development,
                 wrapped>>

\* error.response?.status === 401 && !originalRequest._retry (api.ts:186)
Handles401(c, st) == st = 401 /\ ~retry[c]

\* (mutant: the call waits but its {resolve, reject} is not pushed)
Resp401QueueUnlisted(c) ==
  /\ pc[c] = "sent"
  /\ Handles401(c, 401)
  /\ isRefreshing
  /\ pc' = [pc EXCEPT ![c] = "queued"]
  /\ UNCHANGED <<shared, url, retry, hdr, captured, wait, netFails, srvFails,
                 n429, reissue401, refreshes, delays, outcome, wrapped,
                 delivered>>

\* 401 while a refresh is in flight: the call joins the wait-list
\* (api.ts:187-197)
Resp401Queue(c) ==
  /\ pc[c] = "sent"
  /\ Handles401(c, 401)
  /\ isRefreshing
  /\ failedQueue' = Append(failedQueue, c)
  /\ pc' = [pc EXCEPT ![c] = "queued"]
  /\ UNCHANGED <<now, retryCount, requestQueue, isRefreshing, auth_token,
                 user_data, onAuthPage, redirects, issued, settled, ls_token,
                 settingsAuth, url, retry, hdr, captured, wait, netFails,
                 srvFails, n429, reissue401, refreshes, delays, outcome,
                 development, wrapped, delivered>>

\* 401 and no refresh in flight: the call starts one (api.ts:199-210)
Resp401Refresh(c) ==
  /\ pc[c] = "sent"
  /\ Handles401(c, 401)
  /\ ~isRefreshing
  /\ retry' = [retry EXCEPT ![c] = TRUE]
  /\ isRefreshing' = TRUE
  /\ refreshes' = [refreshes EXCEPT ![c] = @ + 1]
  /\ pc' = [pc EXCEPT ![c] = "refreshing"]
  /\ UNCHANGED <<now, retryCount, requestQueue, failedQueue, auth_token,
                 user_data, onAuthPage, redirects, issued, settled, ls_token,
                 settingsAuth, url, hdr, captured, wait, netFails, srvFails,
                 n429, reissue401, delays, outcome, development, wrapped,
                 delivered>>

\* processQueue(null, token) (api.ts:58-68): every waiter is resolved with
\* the token, in the order of the wait-list; its then-callback sets its
\* header and calls apiClient(originalRequest) (api.ts:191-194)
\* (mutant: the waiters resolved last in, first out)
RECURSIVE ProcessQueueResolveLifo(_, _, _)
ProcessQueueResolveLifo(queue, token, st) ==
  IF queue = <<>> THEN st
  ELSE LET w == queue[Len(queue)] IN
       ProcessQueueResolveLifo(SubSeq(queue, 1, Len(queue) - 1), token,
         [st EXCEPT !.hdr[w] = token,
                    !.reissue401[w] = @ + 1,
                    !.settled = Append(@, w)])

\* (mutant: the success branch forgets the wait-list)
ProcessQueueResolveNone(queue, token, st) == st

RECURSIVE ProcessQueueResolve(_, _, _)
ProcessQueueResolve(queue, token, st) ==
  IF queue = <<>> THEN st
  ELSE LET w == Head(queue) IN
       ProcessQueueResolve(Tail(queue), token,
         [st EXCEPT !.hdr[w] = token,
                    !.reissue401[w] = @ + 1,
                    !.settled = Append(@, w)])

\* (mutant: the failure branch empties the wait-list without rejecting)
ProcessQueueRejectNone(queue, st) == st

\* processQueue(error): every waiter is rejected with the refresh error
RECURSIVE ProcessQueueReject(_, _)
ProcessQueueReject(queue, st) ==
  IF queue = <<>> THEN st
  ELSE LET w == Head(queue) IN
       ProcessQueueReject(Tail(queue),
         [st EXCEPT !.pc[w] = "done",
                    !.outcome[w] = "RefreshError",
                    !.settled = Append(@, w)])

\* The refresh started on a 401 is answered ok (api.ts:212-221, 241-243):
\* the token is stored, the waiters resolved, the call re-issued
\* (isRefreshing is cleared by the finally block before any microtask
\* runs); then the request hook runs for the call and for each waiter.
RefreshOk(c, e) ==
  /\ pc[c] = "refreshing"
  /\ issued' = issued + 1
  /\ auth_token' = NewToken(e)
  /\ LET resolved == ProcessQueueResolve(failedQueue, NewToken(e),
                       [hdr |-> hdr, reissue401 |-> reissue401,
                        settled |-> <<>>])
         hooked == RequestHooks(
                     [HookState EXCEPT
                        !.hdr = [resolved.hdr EXCEPT ![c] = NewToken(e)]],
                     <<c>> \o resolved.settled, NewToken(e), FALSE)
     IN
       /\ SetHookState(hooked)
       /\ settled' = resolved.settled
       /\ reissue401' = [resolved.reissue401 EXCEPT ![c] = @ + 1]
  /\ failedQueue' = <<>>
  /\ isRefreshing' = FALSE
  /\ UNCHANGED <<now, retryCount, user_data, onAuthPage, redirects, ls_token,
                 settingsAuth, url, retry, wait, netFails, srvFails, n429,
                 refreshes, delays, development, wrapped>>

\* The refresh started on a 401 fails: not ok, or fetch or json() threw
\* (api.ts:222-243)
RefreshFail(c) ==
  /\ pc[c] = "refreshing"
  /\ LET st == ProcessQueueReject(failedQueue,
                 [pc |-> pc, outcome |-> outcome, settled |-> <<>>]) IN
       /\ pc' = [st.pc EXCEPT ![c] = "done"]
       /\ outcome' = [st.outcome EXCEPT ![c] = "Http401"]
       /\ settled' = st.settled
       /\ Deliver(outcome')
  /\ failedQueue' = <<>>
  /\ auth_token' = NoToken
  /\ user_data' = FALSE
  /\ redirects' = IF onAuthPage THEN redirects ELSE redirects + 1
  /\ isRefreshing' = FALSE
  /\ UNCHANGED <<now, retryCount, requestQueue, onAuthPage, issued, ls_token,
                 settingsAuth, url, retry, hdr, captured, wait, netFails,
                 srvFails, n429, reissue401, refreshes, delays, development,
                 wrapped>>

\* (mutant: a 403 treated like a 5xx, surfaced only to a flagged call)
Surfaces403Flagged(c, st) == st = 403 /\ retry[c]

\* error.response?.status === 403, and nothing else (api.ts:247)
Surfaces403(c, st) == st = 403

\* (mutant: the 403 handled by the terminal fall-through, which resets
\* the retry counter)
Resp403AsTerminal(c) ==
  /\ pc[c] = "sent"
  /\ retryCount' = 0
  /\ pc' = [pc EXCEPT ![c] = "done"]
  /\ outcome' = [outcome EXCEPT ![c] = "Http403"]
  /\ Deliver(outcome')
  /\ UNCHANGED <<now, requestQueue, isRefreshing, failedQueue, auth_token,
                 user_data, onAuthPage, redirects, issued, settled, ls_token,
                 settingsAuth, url, retry, hdr, captured, wait, netFails,
                 srvFails, n429, reissue401, refreshes, delays, development,
                 wrapped>>

\* 403 (api.ts:247-250)
Resp403(c) ==
  /\ pc[c] = "sent"
  /\ Surfaces403(c, 403)
  /\ pc' = [pc EXCEPT ![c] = "done"]
  /\ outcome' = [outcome EXCEPT ![c] = "Http403"]
  /\ Deliver(outcome')
  /\ UNCHANGED <<shared, url, retry, hdr, captured, wait, netFails, srvFails,
                 n429, reissue401, refreshes, delays, wrapped>>

\* the paths for which the 404 branch expects fallback data (api.ts:256)
apiEndpoints ==
  {<<"/articles">>, <<"/categories">>, <<"/authors">>, <<"/images">>,
   <<"/breaking-news">>, <<"/static-pages">>}

\* apiEndpoints.some(apiEndpoint => endpoint.includes(apiEndpoint))
FallbackEligible(endpoint) ==
  \E apiEndpoint \in apiEndpoints : Includes(endpoint, apiEndpoint)

\* (mutant: the facade answers an eligible 404 with data)
Rejected404Substituted(endpoint) ==
  IF FallbackEligible(endpoint) THEN "ok" ELSE "Http404"

\* what the 404 branch hands to the caller: the eligible path gets a
\* console warning, the other a toast, both the rejected error
\* (api.ts:257-263)
Rejected404(endpoint) ==
  IF FallbackEligible(endpoint) THEN "Http404" ELSE "Http404"

\* 404 (api.ts:253-264)
Resp404(c) ==
  /\ pc[c] = "sent"
  /\ pc' = [pc EXCEPT ![c] = "done"]
  /\ outcome' = [outcome EXCEPT ![c] = Rejected404(url[c])]
  /\ Deliver(outcome')
  /\ UNCHANGED <<shared, url, retry, hdr, captured, wait, netFails, srvFails,
                 n429, reissue401, refreshes, delays, wrapped>>

\* -------------------------------------------------- 429 (api.ts:267-278)
\* The Retry-After header as its decimal digits; <<>> is no header.
RetryAfterHeaders == {<<>>, <<2>>}

\* parseInt of a string of decimal digits
RECURSIVE ParseInt(_)
ParseInt(ds) ==
  IF ds = <<>> THEN 0
  ELSE 10 * ParseInt(SubSeq(ds, 1, Len(ds) - 1)) + ds[Len(ds)]

\* retryAfter ? parseInt(retryAfter) * 1000 : 5000
RetryAfterDelay(h) ==
  IF h # <<>> THEN ParseInt(h) * 1000 ELSE defaultRetryAfterMs

\* (mutant: the 429 branch guarded like the network and 5xx branches)
Retries429Flagged(c, st) ==
  st = 429 /\ ~retry[c] /\ retryCount < maxRetries

\* error.response?.status === 429, and nothing else (api.ts:267)
Retries429(c, st) == st = 429

Resp429(c, h) ==
  /\ pc[c] = "sent"
  /\ n429[c] < Max429
  /\ Retries429(c, 429)
  /\ n429' = [n429 EXCEPT ![c] = @ + 1]
  /\ requestQueue' = SliceLast(requestQueue, sliceKeep)
  /\ wait' = [wait EXCEPT ![c] = RetryAfterDelay(h)]
  /\ pc' = [pc EXCEPT ![c] = "backoff"]
  /\ UNCHANGED <<now, retryCount, isRefreshing, failedQueue, auth_token,
                 user_data, onAuthPage, redirects, issued, settled, ls_token,
                 settingsAuth, url, retry, hdr, captured, netFails, srvFails,
                 reissue401, refreshes, delays, outcome, development, wrapped,
                 delivered>>

\* ------------------------------- network and 5xx retry (api.ts:281-326)
\* Math.random() * 1000 lies in [0, 1000)
Jitters == {0, 999}

\* baseDelay * Math.pow(2, retryCount - 1), retryCount already incremented
BackoffDelay(n) == baseDelay * 2 ^ (n - 1)

\* (mutant: the network branch without the test of the counter)
CanRetryNetworkUncounted(c, st) == st = 0 /\ ~retry[c]

\* (mutant: the network branch without the _retry guard)
CanRetryNetworkUnflagged(c, st) == st = 0 /\ retryCount < maxRetries

\* !error.response && !originalRequest._retry && retryCount < maxRetries
CanRetryNetwork(c, st) == st = 0 /\ ~retry[c] /\ retryCount < maxRetries

\* error.response.status >= 500 && !originalRequest._retry && retryCount < maxRetries
CanRetryServer(c, st) == st >= 500 /\ ~retry[c] /\ retryCount < maxRetries

RespNetworkRetry(c, jitter) ==
  /\ pc[c] = "sent"
  /\ CanRetryNetwork(c, 0)
  /\ netFails' = [netFails EXCEPT ![c] = @ + 1]
  /\ retry' = [retry EXCEPT ![c] = TRUE]
  /\ retryCount' = retryCount + 1
  /\ LET delay == BackoffDelay(retryCount + 1) + jitter IN
       /\ wait' = [wait EXCEPT ![c] = delay]
       /\ delays' = [delays EXCEPT ![c] = Append(@, delay)]
  /\ pc' = [pc EXCEPT ![c] = "backoff"]
  /\ UNCHANGED <<now, requestQueue, isRefreshing, failedQueue, auth_token,
                 user_data, onAuthPage, redirects, issued, settled, ls_token,
                 settingsAuth, url, hdr, captured, srvFails, n429, reissue401,
                 refreshes, outcome, development, wrapped, delivered>>

RespServerRetry(c) ==
  /\ pc[c] = "sent"
  /\ CanRetryServer(c, 500)
  /\ srvFails' = [srvFails EXCEPT ![c] = @ + 1]
  /\ retry' = [retry EXCEPT ![c] = TRUE]
  /\ retryCount' = retryCount + 1
  /\ LET delay == BackoffDelay(retryCount + 1) IN
       /\ wait' = [wait EXCEPT ![c] = delay]
       /\ delays' = [delays EXCEPT ![c] = Append(@, delay)]
  /\ pc' = [pc EXCEPT ![c] = "backoff"]
  /\ UNCHANGED <<now, requestQueue, isRefreshing, failedQueue, auth_token,
                 user_data, onAuthPage, redirects, issued, settled, ls_token,
                 settingsAuth, url, hdr, captured, netFails, n429, reissue401,
                 refreshes, outcome, development, wrapped, delivered>>

\* the setTimeout of a 429, network or 5xx retry fires and the hook calls
\* apiClient(originalRequest) (api.ts:276-277, 300-302, 324-325)
BackoffDone(c) ==
  /\ pc[c] = "backoff"
  /\ wait' = [wait EXCEPT ![c] = 0]
  /\ SetHookState(RequestHook(HookState, c, auth_token, isRefreshing))
  /\ UNCHANGED <<now, retryCount, isRefreshing, failedQueue, auth_token,
                 user_data, onAuthPage, redirects, issued, settled, ls_token,
                 settingsAuth, url, retry, netFails, srvFails, n429,
                 reissue401, refreshes, delays, development, wrapped>>

\* ----------------------------------- terminal fall-through (api.ts:328-359)
\* the statuses that reach the fall-through: another 4xx, a 401 of a call
\* already flagged, a network error or a 5xx that may not be retried
TerminalStatuses == {400, 401, 500, 0}

FallsThrough(c, st) ==
  /\ st \in TerminalStatuses
  /\ ~Handles401(c, st)
  /\ ~CanRetryNetwork(c, st)
  /\ ~CanRetryServer(c, st)

ErrorOf(st) ==
  CASE st = 401 -> "Http401"
    [] st = 400 -> "Http400"
    [] st = 0 -> "NetworkError"
    [] OTHER -> "Http500"

RespTerminal(c, st) ==
  /\ pc[c] = "sent"
  /\ FallsThrough(c, st)
  /\ netFails' = [netFails EXCEPT ![c] = IF st = 0 THEN @ + 1 ELSE @]
  /\ srvFails' = [srvFails EXCEPT ![c] = IF st = 500 THEN @ + 1 ELSE @]
  /\ retryCount' = 0
  /\ pc' = [pc EXCEPT ![c] = "done"]
  /\ outcome' = [outcome EXCEPT ![c] = ErrorOf(st)]
  /\ Deliver(outcome')
  /\ UNCHANGED <<now, requestQueue, isRefreshing, failedQueue, auth_token,
                 user_data, onAuthPage, redirects, issued, settled, ls_token,
                 settingsAuth, url, retry, hdr, captured, wait, n429,
                 reissue401, refreshes, delays, development, wrapped>>

\* ------------------------------ admin settings (siteSettings.ts:53-62)
\* SiteSettingsService.getAllSettings: a fetch of its own, outside the
\* facade, with 'Bearer ' and localStorage's 'token'
GetAllSettings ==
  /\ settingsAuth' = <<ls_token>>
  /\ UNCHANGED <<percall, now, retryCount, requestQueue, isRefreshing,
                 failedQueue, auth_token, user_data, onAuthPage, redirects,
                 issued, settled, ls_token, development>>

\* ------------------------------------------------------------------ Next
\* what the facade and the network do
Serve ==
  \/ \E c \in Calls : Issue(c)
  \/ \E c \in Calls, e \in NewExps : ProRefreshOk(c, e)
  \/ \E c \in Calls : ProRefreshNotOk(c)
  \/ \E c \in Calls : ProRefreshThrow(c)
  \/ \E c \in Calls : RespSuccess(c)
  \/ \E c \in Calls : Resp401Queue(c)
  \/ \E c \in Calls : Resp401Refresh(c)
  \/ \E c \in Calls, e \in NewExps : RefreshOk(c, e)
  \/ \E c \in Calls : RefreshFail(c)
  \/ \E c \in Calls : Resp403(c)
  \/ \E c \in Calls : Resp404(c)
  \/ \E c \in Calls, h \in RetryAfterHeaders : Resp429(c, h)
  \/ \E c \in Calls, j \in Jitters : RespNetworkRetry(c, j)
  \/ \E c \in Calls : RespServerRetry(c)
  \/ \E c \in Calls : BackoffDone(c)
  \/ \E c \in Calls, st \in TerminalStatuses : RespTerminal(c, st)

Next == Serve

\* A freshly loaded page.  Its log stays far below the ceiling and its
\* tokens do not change their expiry class within MaxTicks ticks, so the
\* clock is left out.
Spec == InitFresh /\ [][Next]_vars

\* A busy session: the log is at the ceiling, the clock runs, the server
\* answers, throttles or fails.
NextBusy ==
  \/ Tick
  \/ \E c \in Calls : Issue(c)
  \/ \E c \in Calls : RespSuccess(c)
  \/ \E c \in Calls, h \in RetryAfterHeaders : Resp429(c, h)
  \/ \E c \in Calls, j \in Jitters : RespNetworkRetry(c, j)
  \/ \E c \in Calls : BackoffDone(c)
  \/ \E c \in Calls : RespTerminal(c, 0)

SpecBusy == InitBusy /\ [][NextBusy]_vars

\* what the network, the refresh endpoint and the timers do for call c
\* once it is made
Step(c) ==
  \/ \E e \in NewExps : ProRefreshOk(c, e)
  \/ ProRefreshNotOk(c)
  \/ ProRefreshThrow(c)
  \/ RespSuccess(c)
  \/ Resp401Queue(c)
  \/ Resp401Refresh(c)
  \/ \E e \in NewExps : RefreshOk(c, e)
  \/ RefreshFail(c)
  \/ Resp403(c)
  \/ Resp404(c)
  \/ \E h \in RetryAfterHeaders : Resp429(c, h)
  \/ \E j \in Jitters : RespNetworkRetry(c, j)
  \/ RespServerRetry(c)
  \/ BackoffDone(c)
  \/ \E st \in TerminalStatuses : RespTerminal(c, st)

\* The freshly loaded page when every request, every refresh and every
\* timer of a call that was made eventually comes back; the server answers
\* a call with 429 at most Max429 times.
SpecLive ==
  InitLive /\ [][Next]_vars /\ \A c \in 1 .. NumCalls : WF_vars(Step(c))

\* The calls of a session the server does not accept: every reply is a
\* 401 or a success, the refresh endpoint answers or fails.
NextQueue ==
  \/ \E c \in Calls : Issue(c)
  \/ \E c \in Calls : RespSuccess(c)
  \/ \E c \in Calls : Resp401Queue(c)
  \/ \E c \in Calls : Resp401Refresh(c)
  \/ \E c \in Calls, e \in NewExps : RefreshOk(c, e)
  \/ \E c \in Calls : RefreshFail(c)
  \/ \E c \in Calls : RespTerminal(c, 401)

SpecQueue == InitQueue /\ [][NextQueue]_vars

\* The calls of a page whose backend is failing: the requests are lost or
\* answered 5xx, now and then with success.
NextRetry ==
  \/ \E c \in Calls : Issue(c)
  \/ \E c \in Calls : RespSuccess(c)
  \/ \E c \in Calls, j \in Jitters : RespNetworkRetry(c, j)
  \/ \E c \in Calls : RespServerRetry(c)
  \/ \E c \in Calls : BackoffDone(c)
  \/ \E c \in Calls, st \in {0, 500} : RespTerminal(c, st)

SpecRetry == InitRetry /\ [][NextRetry]_vars

\* The feature modules' calls: the server answers, refuses, loses the
\* request or fails.
NextFeature ==
  \/ \E c \in Calls : Issue(c)
  \/ \E c \in Calls : RespSuccess(c)
  \/ \E c \in Calls : Resp403(c)
  \/ \E c \in Calls : Resp404(c)
  \/ \E c \in Calls, j \in Jitters : RespNetworkRetry(c, j)
  \/ \E c \in Calls : RespServerRetry(c)
  \/ \E c \in Calls : BackoffDone(c)
  \/ \E c \in Calls, st \in {0, 500} : RespTerminal(c, st)
  \/ \E c \in Calls : Resp401Queue(c)
  \/ \E c \in Calls : Resp401Refresh(c)
  \/ \E c \in Calls, e \in NewExps : RefreshOk(c, e)
  \/ \E c \in Calls : RefreshFail(c)
  \/ GetAllSettings

SpecFeature == InitFeature /\ [][NextFeature]_vars

\* =================================================================== claims
Range(q) == {q[i] : i \in 1 .. Len(q)}

\* the calls whose request to the refresh endpoint has not settled
RefreshesInFlight == {c \in Calls : pc[c] \in {"proRefresh", "refreshing"}}

\* C1: at most one request to the refresh endpoint is in flight at any
\* time, whether started by the request hook (near expiry) or by the
\* response hook (401).
C1_OneRefreshInFlight == Cardinality(RefreshesInFlight) <= 1

C3_OneRefreshAndRetry ==
  \A c \in Calls : reissue401[c] <= 1 /\ refreshes[c] <= 1

\* C4: a call that was re-issued after a successful refresh and is failed
\* with its 401 is failed as SessionExpired: the stored credential is
\* cleared and the redirect scheduled.
C4_Second401SessionExpired ==
  \A c \in Calls :
    (pc[c] = "done" /\ outcome[c] = "Http401" /\ reissue401[c] >= 1) =>
      (auth_token = NoToken /\ ~user_data /\ redirects >= 1)

C6_BackoffRetriesBounded ==
  \A c \in Calls : Len(delays[c]) <= maxRetries

\* a call has been re-issued after a network error or a 5xx
C6_Witness ==
  \E c \in Calls :
    Len(delays[c]) = 1 /\ pc[c] = "sent" /\ netFails[c] + srvFails[c] = 1

\* C7: a call is surfaced with a network error or a 5xx only after
\* maxRetries retries of it.
C7_RetriedWhileBelowCeiling ==
  \A c \in Calls :
    (pc[c] = "done" /\ outcome[c] \in {"NetworkError", "Http500"}) =>
      Len(delays[c]) >= maxRetries

\* strictly increasing
Increasing(q) == \A i \in 1 .. Len(q) - 1 : q[i] < q[i + 1]

\* C8: a lone call that has met only network errors, at most three of
\* them, has been retried after each, with increasing delays, and has not
\* been failed; when its next attempt succeeds the caller gets the
\* response and the retry counter is 0.
C8_ThreeNetworkErrorsThenSuccess ==
  \A c \in Calls :
    ( /\ \A d \in Calls \ {c} : pc[d] = "idle"
      /\ netFails[c] <= 3
      /\ srvFails[c] = 0 /\ n429[c] = 0
      /\ reissue401[c] = 0 /\ refreshes[c] = 0
      /\ outcome[c] \notin {"Http400", "Http403", "Http404"} ) =>
        /\ Len(delays[c]) = netFails[c]
        /\ Increasing(delays[c])
        /\ pc[c] = "done" => (outcome[c] = "ok" /\ retryCount = 0)

\* C9: the i-th network/5xx retry of a call waits baseDelay * 2^(i-1), plus
\* a jitter in [0, 1000) after a network error, and no less than the
\* retry before it.
C9_BackoffMonotone ==
  \A c \in Calls : \A i \in 1 .. Len(delays[c]) :
    /\ delays[c][i] >= baseDelay * 2 ^ (i - 1)
    /\ delays[c][i] < baseDelay * 2 ^ (i - 1) + 1000
    /\ i > 1 => delays[c][i] >= delays[c][i - 1]

\* the records of the log made within the trailing window
InWindow(q, t) == SelectSeq(q, LAMBDA r : t - r.timestamp < windowMs)

\* call c passes the request hook in this step
HookPass(c) == pc[c] \in {"idle", "backoff"} /\ pc'[c] # pc[c]

\* ... and is denied by admission
Denied(c) == pc'[c] = "done" /\ outcome'[c] = "RateLimitError"

\* C10: a call to an endpoint other than the login, refresh and health
\* endpoints is denied exactly when the records within the trailing window
\* have reached the ceiling; older records are purged before the decision
\* and an allowed call appends exactly one record.
C10_AdmissionAtCeiling ==
  [][\A c \in Calls :
       (HookPass(c) /\ url[c] \notin {U_login, U_refresh, U_health}) =>
         LET q == InWindow(requestQueue, now) IN
           /\ Denied(c) <=> Len(q) >= maxRequests
           /\ Denied(c) => requestQueue' = q
           /\ ~Denied(c) => requestQueue' = Append(q, [timestamp |-> now])]_vars

\* C11: a call to the login, refresh or health endpoint is admitted
\* whatever the size of the request log, at or above the ceiling too: it is
\* logged and goes on to the network.
C11_CriticalAlwaysAdmitted ==
  [][\A c \in Calls :
       (HookPass(c) /\ url[c] \in criticalEndpoints) =>
         /\ ~Denied(c)
         /\ pc'[c] \in {"sent", "proRefresh"}
         /\ requestQueue' =
              Append(InWindow(requestQueue, now), [timestamp |-> now])]_vars

\* a call to a critical endpoint has been sent with the log at the ceiling
C11_Witness ==
  \E c \in Calls :
    /\ url[c] \in criticalEndpoints
    /\ pc[c] = "sent"
    /\ Len(InWindow(requestQueue, now)) > maxRequests

\* call c passes the request hook in this step and admission refuses it
Refused(c) ==
  HookPass(c) /\ ShouldRateLimit(InWindow(requestQueue, now), url[c])

\* C12: a call refused by admission, on its first issue or on a retry, is
\* terminal: it is not sent, no record is added to the log, no retry is
\* counted or scheduled, the caller gets the rate-limited failure, and the
\* call never moves again.
C12_DeniedIsTerminal ==
  [][\A c \in Calls :
       /\ Refused(c) =>
            /\ Denied(c)
            /\ requestQueue' = InWindow(requestQueue, now)
            /\ retryCount' = retryCount
            /\ retry'[c] = retry[c]
            /\ wait'[c] = 0
            /\ delays'[c] = delays[c]
       /\ outcome[c] = "RateLimitError" =>
            /\ pc[c] = "done" /\ pc'[c] = "done"
            /\ outcome'[c] = "RateLimitError"
            /\ wait'[c] = 0
            /\ delays'[c] = delays[c]
            /\ n429'[c] = n429[c]
            /\ netFails'[c] = netFails[c]]_vars

\* a call has been refused on its retry after a network error, another on
\* its first issue
C12_Witness ==
  /\ \E c \in Calls :
       outcome[c] = "RateLimitError" /\ pc[c] = "done" /\ netFails[c] = 1
  /\ \E c \in Calls :
       outcome[c] = "RateLimitError" /\ pc[c] = "done" /\ netFails[c] = 0

\* the stored credential decodes to an expiry less than 300 s ahead
StoredNearExpiry == Decodes(auth_token) /\ NearExpiry(auth_token, now)

\* C13: a call other than a refresh call that passes the request hook
\* while the stored credential is near expiry waits for a refresh before
\* it is sent; when its refresh succeeds the new credential is stored and
\* the call is sent carrying it.
C13_RefreshBeforeDispatch ==
  [][\A c \in Calls :
       /\ (HookPass(c) /\ ~Denied(c) /\ url[c] # U_refresh
             /\ StoredNearExpiry) =>
            pc'[c] = "proRefresh"
       /\ (pc[c] = "proRefresh" /\ pc'[c] # "proRefresh"
             /\ issued' # issued) =>
            /\ pc'[c] = "sent"
            /\ auth_token' # captured[c]
            /\ hdr'[c] = auth_token']_vars

\* C14: a call other than a refresh call that passes the request hook
\* while the stored credential is near expiry and a refresh is in flight
\* is not sent with the old credential: it joins the wait-list.
C14_WaitsForRefreshInFlight ==
  [][\A c \in Calls :
       (HookPass(c) /\ ~Denied(c) /\ url[c] # U_refresh
         /\ StoredNearExpiry /\ RefreshesInFlight # {}) =>
           /\ pc'[c] = "queued"
           /\ c \in Range(failedQueue')
           /\ hdr'[c] # auth_token]_vars

\* the refresh of call c, started by either hook, settles in this step
\* without a new token
RefreshFails(c) ==
  /\ pc[c] \in {"proRefresh", "refreshing"}
  /\ pc'[c] # pc[c]
  /\ issued' = issued

\* C15: when a refresh fails, whichever hook started it, in that step the
\* queued callers are rejected, auth_token and user_data are removed, the
\* call that started it is rejected without being re-issued and the
\* refresh-in-flight flag is cleared.
C15_RefreshFailureClearsSession ==
  [][\A c \in Calls :
       RefreshFails(c) =>
         /\ failedQueue' = <<>>
         /\ \A w \in Range(failedQueue) :
              pc'[w] = "done" /\ outcome'[w] = "RefreshError"
         /\ auth_token' = NoToken
         /\ ~user_data'
         /\ pc'[c] = "done"
         /\ outcome'[c] \notin {"pending", "ok"}
         /\ reissue401'[c] = reissue401[c]
         /\ ~isRefreshing']_vars

\* C16: however many refreshes fail before a scheduled redirect takes
\* effect, the redirect to the authentication entry point is scheduled
\* once: a caller rejected by a failed refresh implies one redirect, and
\* there is never a second.
C16_RedirectOnce ==
  /\ redirects <= 1
  /\ (\E c \in Calls : outcome[c] = "RefreshError") => redirects = 1

\* C17: when the stored credential does not decode, a call passing the
\* request hook is sent with that credential as its bearer token; no
\* refresh is started, the stored credential is left alone and nothing is
\* raised to the caller.
C17_MalformedFailsOpen ==
  [][\A c \in Calls :
       (HookPass(c) /\ ~Denied(c) /\ auth_token.exp = Malformed) =>
         /\ pc'[c] = "sent"
         /\ hdr'[c] = auth_token
         /\ auth_token' = auth_token
         /\ issued' = issued
         /\ outcome'[c] = "pending"]_vars

\* a call has been sent carrying the undecodable credential
C17_Witness ==
  \E c \in Calls :
    /\ pc[c] = "sent"
    /\ hdr[c].exp = Malformed
    /\ hdr[c] = auth_token
    /\ issued = 1

\* call c is given the outcome o in this step
Gets(c, o) == outcome[c] # o /\ outcome'[c] = o

\* call c is neither re-issued nor made to wait in this step, and no
\* refresh is started
NotRetried(c) ==
  /\ pc[c] = "sent" /\ pc'[c] = "done"
  /\ wait'[c] = 0
  /\ delays'[c] = delays[c]
  /\ refreshes'[c] = refreshes[c]
  /\ reissue401'[c] = reissue401[c]
  /\ retry'[c] = retry[c]
  /\ retryCount' = retryCount
  /\ isRefreshing' = isRefreshing
  /\ auth_token' = auth_token

\* C18: a 403 is rejected to the caller at once whatever retryCount and
\* _retry are: the 403 branch can be taken by every call awaiting its
\* reply, it neither re-issues the call nor schedules a delay nor starts a
\* refresh, and the call never moves again.
C18_403NeverRetried ==
  [][\A c \in Calls :
       /\ pc[c] = "sent" => ENABLED Resp403(c)
       /\ Gets(c, "Http403") => NotRetried(c)
       /\ outcome[c] = "Http403" =>
            pc'[c] = "done" /\ outcome'[c] = "Http403"]_vars

\* a call that a 5xx would have sent to a backoff retry (flag unset,
\* counter below the ceiling and not zero) has been rejected with its 403
C18_Witness ==
  \E c \in Calls :
    /\ outcome[c] = "Http403" /\ pc[c] = "done"
    /\ ~retry[c]
    /\ retryCount > 0 /\ retryCount < maxRetries

\* C19: a 404 is rejected to the caller as an error, on a path of
\* apiEndpoints or on another: the facade neither retries the call nor
\* resolves it with data.
C19_404NeverRetried ==
  [][\A c \in Calls :
       /\ pc[c] = "sent" => ENABLED Resp404(c)
       /\ (pc[c] = "sent" /\ <<Resp404(c)>>_vars) =>
            outcome'[c] = "Http404" /\ NotRetried(c)
       /\ outcome[c] = "Http404" =>
            pc'[c] = "done" /\ outcome'[c] = "Http404"]_vars

\* a 404 has been rejected on a path of apiEndpoints and on another
C19_Witness ==
  \E c \in Calls, d \in Calls :
    /\ outcome[c] = "Http404" /\ FallbackEligible(url[c])
    /\ outcome[d] = "Http404" /\ ~FallbackEligible(url[d])

\* C20: a call made through withFallback is answered with the fallback
\* data exactly when the wrapped call failed with a 404 on a path of
\* apiEndpoints, or with a network error in development; otherwise its
\* caller gets the wrapped call's own value or error.
C20_FallbackIffEligible ==
  \A c \in Calls :
    (wrapped[c] /\ pc[c] = "done") =>
      /\ delivered[c] = "fallback" <=>
           \/ outcome[c] = "Http404" /\ FallbackEligible(url[c])
           \/ outcome[c] = "NetworkError" /\ development
      /\ delivered[c] # "fallback" => delivered[c] = outcome[c]

\* the refresh started on a 401 settles in this step
RefreshSettles ==
  \E c \in Calls : pc[c] = "refreshing" /\ pc'[c] # "refreshing"

\* C21: a call joins the wait-list at its end; a queued call leaves the
\* wait-list only in the step in which the refresh in flight settles, and
\* processQueue settles the queued calls in the order of the wait-list,
\* first in first out.
C21_QueueFifo ==
  [][\A w \in Calls :
       /\ (pc[w] # "queued" /\ pc'[w] = "queued") =>
            failedQueue' = Append(failedQueue, w)
       /\ (pc[w] = "queued" /\ pc'[w] # "queued") =>
            /\ RefreshSettles
            /\ w \in Range(failedQueue)
            /\ settled' = failedQueue]_vars

\* two waiters that arrived against the order of their numbers have been
\* resolved in the order of their arrival and re-issued
C21_Witness ==
  /\ Len(settled) = 2
  /\ settled[1] > settled[2]
  /\ \A i \in 1 .. 2 : reissue401[settled[i]] = 1 /\ pc[settled[i]] = "sent"

\* C22: a call the facade re-issues after the wait of a 429, a 5xx or a
\* network error is not put to the admission check again: it is sent,
\* with the log at the ceiling too.
C22_RetryNotReadmitted ==
  [][\A c \in Calls :
       (pc[c] = "backoff" /\ pc'[c] # "backoff") =>
         /\ ~Denied(c)
         /\ pc'[c] = "sent"]_vars

\* call c settles in this step: its caller gets a value or an error
Settles(c) == pc[c] # "done" /\ pc'[c] = "done"

\* C23: the retry counter is 0 after every step in which a call settles,
\* with a response or with a final failure of any kind.
C23_CounterResetOnSettle ==
  [][\A c \in Calls : Settles(c) => retryCount' = 0]_vars

\* call c is handed to the network in this step
Dispatched(c) == pc[c] # "sent" /\ pc'[c] = "sent"

\* C24: a call whose proactive refresh failed is sent with the credential
\* the hook had read, and every call sent while a credential is stored
\* carries an Authorization header.
C24_BearerAfterFailedProactive ==
  [][\A c \in Calls :
       /\ (pc[c] = "proRefresh" /\ Dispatched(c) /\ issued' = issued) =>
            hdr'[c] = captured[c]
       /\ (Dispatched(c) /\ auth_token' # NoToken) =>
            hdr'[c] # NoToken]_vars

\* C25: an admin settings request carries the credential stored under
\* auth_token at the time it is made.
C25_SettingsCarryStoredCredential ==
  [][settingsAuth' # settingsAuth => settingsAuth' = <<auth_token>>]_vars

\* C26: when no refresh is marked in flight the wait-list is empty, and a
\* call waits only as a member of the wait-list of a refresh in flight:
\* none is stranded.
C26_NoStrandedWaiter ==
  /\ ~isRefreshing => failedQueue = <<>>
  /\ \A c \in Calls :
       pc[c] = "queued" <=> c \in Range(failedQueue)

\* two calls wait behind the third's refresh
C26_Witness ==
  /\ isRefreshing
  /\ Len(failedQueue) = 2
  /\ \E c \in Calls : pc[c] = "refreshing"

\* C27: the shared retry counter stays within 0 .. maxRetries under every
\* interleaving of failing and succeeding calls.
C27_CounterWithinBounds ==
  retryCount >= 0 /\ retryCount <= maxRetries

\* the counter is at its ceiling while a call that has never been retried
\* awaits its reply
C27_Witness ==
  /\ retryCount = maxRetries
  /\ \E c \in Calls : pc[c] = "sent" /\ ~retry[c]

\* the session state a rejection has no business with
SessionKept(c) ==
  /\ auth_token' = auth_token
  /\ user_data' = user_data
  /\ isRefreshing' = isRefreshing
  /\ failedQueue' = failedQueue
  /\ retryCount' = retryCount
  /\ retry'[c] = retry[c]

C29_EveryCallSettles ==
  \A c \in 1 .. NumCalls : (pc[c] # "idle") ~> (pc[c] = "done")

\* a call has settled after a 429, a backoff retry and a wait behind
\* another call's refresh
C29_Witness ==
  \E c \in Calls :
    /\ pc[c] = "done"
    /\ n429[c] = 1
    /\ Len(delays[c]) = 1
    /\ reissue401[c] >= 1 /\ refreshes[c] = 0

\* a failed refresh has removed the credential, and nothing is stored
SessionExpired == redirects >= 1 /\ auth_token = NoToken

\* C30: once a failed refresh has removed the stored credential, a
\* proactive refresh that is still in flight (it was started while the
\* credential was stored, before the removal) does not store a credential
\* when it completes.
C30_NoWriteBackAfterExpiry ==
  [][\A c \in Calls :
       (SessionExpired /\ pc[c] = "proRefresh" /\ pc'[c] # "proRefresh") =>
         auth_token' = NoToken]_vars

==========================================================================
